---- MODULE Spec2Model ----
(***************************************************************************)
(* A model of the Trust/Cheat simulator: the strategies' decision rules,   *)
(* the match engine (play_match_record), the round-robin tournament        *)
(* (run_tournament_record), the evolution step (evolve_population) and the *)
(* single-match GUI run against the external decision provider             *)
(* (TrustSimGUI._run_simulation with call_claude).                         *)
(*                                                                         *)
(* Agents are Python objects: the population is a list of references       *)
(* (object ids) into a heap, so that two list slots naming one object is a *)
(* state the model can express.  Object ids are renamed after each         *)
(* evolution step (an address has no meaning beyond its identity).         *)
(***************************************************************************)
EXTENDS Integers, Sequences, FiniteSets, TLC

VARIABLES
    agents,           \* the population: a sequence of object ids
    heap,             \* object id -> Agent object
    rounds_per_game,  \* run_tournament_record's argument: an int or a tuple (lo, hi)
    num_agents,       \* the configured population size
    pc,               \* where the generation loop stands
    i, j,             \* run_tournament_record's loop indices (0-based)
    rounds,           \* play_match_record's argument for the current match
    match_history,    \* play_match_record's local list
    score_before,     \* the two participants' scores when the match began
    matches,          \* run_tournament_record's local list
    eliminate_n,      \* arguments of the last evolve_population call
    clone_n,
    evolve_in,        \* the population evolve_population was last called on
    evolve_out,       \* the references it returned, before the ids are renamed
    running,          \* TrustSimGUI.running
    start_btn,        \* state of the Start button: "normal" or "disabled"
    reset_btn,        \* state of the Reset button
    sim_pc,           \* where the simulation thread stands ("none": no thread)
    sim_rounds,       \* _run_simulation's rounds
    round_num,        \* _run_simulation's loop variable
    opponent,         \* _run_simulation's opponent (its strategy object)
    sim_history,      \* _run_simulation's match_history
    replaced,         \* per recorded round: was the provider's action replaced by the default
    agent_score,      \* _run_simulation's running totals
    opponent_score,
    attempt,          \* call_claude's loop variable
    claude_reason_var, \* the reason shown by the GUI
    claude_call       \* a call_claude call on its own: max_retries, the responses
                      \* received so far and how the call stands or ended

coreVars == <<agents, heap, rounds_per_game, num_agents, pc, i, j, rounds,
              match_history, score_before, matches, eliminate_n, clone_n,
              evolve_in, evolve_out>>

guiVars == <<running, start_btn, reset_btn, sim_pc, sim_rounds, round_num,
             opponent, sim_history, replaced, agent_score, opponent_score,
             attempt, claude_reason_var, claude_call>>

vars == <<coreVars, guiVars>>

-----------------------------------------------------------------------------
(* Bounds of the model *)

NumAgents == 3        \* population size of the tournament specification
MaxRounds == 2        \* largest rounds_per_game of the tournament specification
LongRounds == 6       \* upper end of rounds_per_game in the two-agent specification
SeriesRounds == 4     \* largest rounds_per_game of the series specification
PairRounds == 3       \* largest rounds_per_game of the two-pair specification

-----------------------------------------------------------------------------
(* CONFIG['strategies'] and the two moves *)

Strategies ==
    {"Always Trust", "Always Cheat", "Tit-for-Tat", "Grudger",
     "Detective", "Simpleton", "Random", "Copykitten"}

Moves == {"TRUST", "CHEAT"}

Last(s) == s[Len(s)]

\* any(opp == 'CHEAT' for opp, _ in history)
AnyOppCheat(history) == \E k \in 1..Len(history) : history[k][1] = "CHEAT"

-----------------------------------------------------------------------------
(* Strategies.  A strategy object is [name, flag]; flag is Grudger's       *)
(* grudge or Detective's switched, and FALSE for the stateless strategies. *)
(* Each decide returns the move and the flag it leaves behind.             *)

NewStrategy(name) == [name |-> name, flag |-> FALSE]

AlwaysTrustDecide(flag, history) == [move |-> "TRUST", flag |-> flag]

AlwaysCheatDecide(flag, history) == [move |-> "CHEAT", flag |-> flag]

\* a faulty variant: the wrong field of the last round is read (the own move)
TitForTatDecide_OwnLast(flag, history) ==
    IF history = <<>>
    THEN [move |-> "TRUST", flag |-> flag]
    ELSE [move |-> Last(history)[2], flag |-> flag]

TitForTatDecide(flag, history) ==
    IF history = <<>>
    THEN [move |-> "TRUST", flag |-> flag]
    ELSE [move |-> Last(history)[1], flag |-> flag]

\* a faulty variant: the grudge is not dropped on an empty history
GrudgerDecide_NoReset(grudge, history) ==
    LET g == grudge \/ AnyOppCheat(history)
    IN  [move |-> IF g THEN "CHEAT" ELSE "TRUST", flag |-> g]

GrudgerDecide(grudge, history) ==
    IF history = <<>>
    THEN [move |-> "TRUST", flag |-> FALSE]
    ELSE LET g == grudge \/ AnyOppCheat(history)
         IN  [move |-> IF g THEN "CHEAT" ELSE "TRUST", flag |-> g]

\* a faulty variant: a Detective that has switched opens a match with CHEAT
DetectiveDecide_SwitchedOpensCheat(switched, history) ==
    LET moves == Len(history)
        sw == switched \/ AnyOppCheat(history)
    IN  IF sw
        THEN IF history = <<>>
             THEN [move |-> "CHEAT", flag |-> TRUE]
             ELSE [move |-> Last(history)[1], flag |-> TRUE]
        ELSE IF moves = 0 THEN [move |-> "TRUST", flag |-> FALSE]
        ELSE IF moves = 1 THEN [move |-> "CHEAT", flag |-> FALSE]
        ELSE IF moves = 2 THEN [move |-> "TRUST", flag |-> FALSE]
        ELSE IF moves = 3 THEN [move |-> "TRUST", flag |-> FALSE]
        ELSE [move |-> "CHEAT", flag |-> TRUE]

\* a faulty variant: a Detective that has switched defects instead of mirroring
DetectiveDecide_SwitchedCheats(switched, history) ==
    LET moves == Len(history)
        sw == switched \/ AnyOppCheat(history)
    IN  IF sw
        THEN IF history = <<>>
             THEN [move |-> "TRUST", flag |-> TRUE]
             ELSE [move |-> "CHEAT", flag |-> TRUE]
        ELSE IF moves = 0 THEN [move |-> "TRUST", flag |-> FALSE]
        ELSE IF moves = 1 THEN [move |-> "CHEAT", flag |-> FALSE]
        ELSE IF moves = 2 THEN [move |-> "TRUST", flag |-> FALSE]
        ELSE IF moves = 3 THEN [move |-> "TRUST", flag |-> FALSE]
        ELSE [move |-> "CHEAT", flag |-> TRUE]

DetectiveDecide(switched, history) ==
    LET moves == Len(history)
        sw == switched \/ AnyOppCheat(history)
    IN  IF sw
        THEN IF history = <<>>
             THEN [move |-> "TRUST", flag |-> TRUE]
             ELSE [move |-> Last(history)[1], flag |-> TRUE]
        ELSE IF moves = 0 THEN [move |-> "TRUST", flag |-> FALSE]
        ELSE IF moves = 1 THEN [move |-> "CHEAT", flag |-> FALSE]
        ELSE IF moves = 2 THEN [move |-> "TRUST", flag |-> FALSE]
        ELSE IF moves = 3 THEN [move |-> "TRUST", flag |-> FALSE]
        ELSE [move |-> "CHEAT", flag |-> TRUE]

SimpletonDecide(flag, history) ==
    IF history = <<>>
    THEN [move |-> "TRUST", flag |-> flag]
    ELSE LET opp == Last(history)[1]
             own == Last(history)[2]
         IN  IF own = "TRUST" /\ opp = "CHEAT"
             THEN [move |-> "CHEAT", flag |-> flag]
             ELSE [move |-> own, flag |-> flag]

\* a faulty variant: one defection in the last two rounds is enough
CopykittenDecide_EitherOfTwo(flag, history) ==
    IF Len(history) < 2
    THEN [move |-> "TRUST", flag |-> flag]
    ELSE IF Last(history)[1] = "CHEAT" \/ history[Len(history) - 1][1] = "CHEAT"
         THEN [move |-> "CHEAT", flag |-> flag]
         ELSE [move |-> "TRUST", flag |-> flag]

CopykittenDecide(flag, history) ==
    IF Len(history) < 2
    THEN [move |-> "TRUST", flag |-> flag]
    ELSE IF Last(history)[1] = "CHEAT" /\ history[Len(history) - 1][1] = "CHEAT"
         THEN [move |-> "CHEAT", flag |-> flag]
         ELSE [move |-> "TRUST", flag |-> flag]

\* random.choice(['TRUST', 'CHEAT']): the set of possible outcomes
RandomDecide(flag, history) == {[move |-> m, flag |-> flag] : m \in Moves}

\* strategy.decide(history), dispatched on the strategy's class: the set of
\* possible outcomes (a singleton except for Random)
Decide(strategy, history) ==
    CASE strategy.name = "Always Trust" -> {AlwaysTrustDecide(strategy.flag, history)}
      [] strategy.name = "Always Cheat" -> {AlwaysCheatDecide(strategy.flag, history)}
      [] strategy.name = "Tit-for-Tat"  -> {TitForTatDecide(strategy.flag, history)}
      [] strategy.name = "Grudger"      -> {GrudgerDecide(strategy.flag, history)}
      [] strategy.name = "Detective"    -> {DetectiveDecide(strategy.flag, history)}
      [] strategy.name = "Simpleton"    -> {SimpletonDecide(strategy.flag, history)}
      [] strategy.name = "Random"       -> RandomDecide(strategy.flag, history)
      [] strategy.name = "Copykitten"   -> {CopykittenDecide(strategy.flag, history)}

-----------------------------------------------------------------------------
(* Agent *)

\* Agent.__init__
NewAgent(strategy_name) ==
    [strategy_name |-> strategy_name,
     strategy      |-> NewStrategy(strategy_name),
     score         |-> 0,
     history       |-> <<>>]

\* a faulty variant: the score survives the reset
AgentReset_KeepScore(a) ==
    [a EXCEPT !.strategy = NewStrategy(a.strategy_name),
              !.history = <<>>]

\* Agent.reset
AgentReset(a) ==
    [a EXCEPT !.strategy = NewStrategy(a.strategy_name),
              !.score = 0,
              !.history = <<>>]

-----------------------------------------------------------------------------
(* Payoff matrix: (agent move, opponent move) -> (agent points, opponent points) *)

\* a faulty variant: the cheated side loses nothing when it is the opponent
PAYOFF_MATRIX_OneSided(agent_move, opponent_move) ==
    CASE agent_move = "TRUST" /\ opponent_move = "TRUST" -> <<2, 2>>
      [] agent_move = "TRUST" /\ opponent_move = "CHEAT" -> <<-1, 3>>
      [] agent_move = "CHEAT" /\ opponent_move = "TRUST" -> <<3, 0>>
      [] agent_move = "CHEAT" /\ opponent_move = "CHEAT" -> <<0, 0>>

\* a faulty variant: the two mixed entries are exchanged
PAYOFF_MATRIX_MixedSwapped(agent_move, opponent_move) ==
    CASE agent_move = "TRUST" /\ opponent_move = "TRUST" -> <<2, 2>>
      [] agent_move = "TRUST" /\ opponent_move = "CHEAT" -> <<3, -1>>
      [] agent_move = "CHEAT" /\ opponent_move = "TRUST" -> <<-1, 3>>
      [] agent_move = "CHEAT" /\ opponent_move = "CHEAT" -> <<0, 0>>

PAYOFF_MATRIX(agent_move, opponent_move) ==
    CASE agent_move = "TRUST" /\ opponent_move = "TRUST" -> <<2, 2>>
      [] agent_move = "TRUST" /\ opponent_move = "CHEAT" -> <<-1, 3>>
      [] agent_move = "CHEAT" /\ opponent_move = "TRUST" -> <<3, -1>>
      [] agent_move = "CHEAT" /\ opponent_move = "CHEAT" -> <<0, 0>>

-----------------------------------------------------------------------------
(* Python list helpers *)

Range(s) == {s[k] : k \in 1..Len(s)}

MaxOf(S) == CHOOSE x \in S : \A y \in S : y <= x

\* s[start:] with Python's treatment of a negative or too large start
PySliceFrom(s, start) ==
    LET n  == Len(s)
        st == IF start < 0
              THEN (IF n + start < 0 THEN 0 ELSE n + start)
              ELSE (IF start > n THEN n ELSE start)
    IN  SubSeq(s, st + 1, n)

\* a faulty variant: ascending, but equal scores come out in reverse input order
RECURSIVE SortedByScore_TiesReversed(_, _)
SortedByScore_TiesReversed(ags, h) ==
    IF ags = <<>>
    THEN <<>>
    ELSE LET rest == SortedByScore_TiesReversed(SubSeq(ags, 1, Len(ags) - 1), h)
             x    == Last(ags)
             p    == Cardinality({k \in 1..Len(rest) : h[rest[k]].score < h[x].score})
         IN  SubSeq(rest, 1, p) \o <<x>> \o SubSeq(rest, p + 1, Len(rest))

\* sorted(agents, key=lambda a: a.score): ascending and stable
RECURSIVE SortedByScore(_, _)
SortedByScore(ags, h) ==
    IF ags = <<>>
    THEN <<>>
    ELSE LET rest == SortedByScore(SubSeq(ags, 1, Len(ags) - 1), h)
             x    == Last(ags)
             p    == Cardinality({k \in 1..Len(rest) : h[rest[k]].score <= h[x].score})
         IN  SubSeq(rest, 1, p) \o <<x>> \o SubSeq(rest, p + 1, Len(rest))

\* the position of the first slot of s that names the same object as slot p
FirstSlot(s, p) == CHOOSE q \in 1..Len(s) : s[q] = s[p] /\ \A r \in 1..(q - 1) : s[r] # s[p]

-----------------------------------------------------------------------------
(* play_match_record *)

\* a faulty variant: only the first participant's history is cleared
ClearHistories_AgentOnly(h, a, b) == [h EXCEPT ![a].history = <<>>]

\* a faulty variant: the scores are cleared with the histories
ClearHistories_AndScores(h, a, b) ==
    LET h1 == [h EXCEPT ![a].history = <<>>, ![a].score = 0]
    IN  [h1 EXCEPT ![b].history = <<>>, ![b].score = 0]

\* agent.history = []; opponent.history = []
ClearHistories(h, a, b) ==
    LET h1 == [h EXCEPT ![a].history = <<>>]
    IN  [h1 EXCEPT ![b].history = <<>>]

\* a faulty variant: the loop runs once more than asked
MoreRounds_OffByOne(played, n) == played <= n

\* for _ in range(rounds): the loop goes on while fewer than rounds entries exist
MoreRounds(played, n) == played < n

\* a faulty variant: the agent's move is on the opponent's history before the
\* opponent decides
RoundDecisions_OpponentSeesMove(h, a, b) ==
    UNION {LET h1 == [h EXCEPT ![a].strategy.flag = da.flag]
           IN  {[agent |-> da, opponent |-> db] :
                   db \in Decide(h1[b].strategy,
                                 Append(h1[b].history, <<da.move, "TRUST">>))} :
           da \in Decide(h[a].strategy, h[a].history)}

\* agent_move = agent.strategy.decide(agent.history);
\* opponent_move = opponent.strategy.decide(opponent.history):
\* the possible pairs of outcomes, the agent deciding first
RoundDecisions(h, a, b) ==
    UNION {LET h1 == [h EXCEPT ![a].strategy.flag = da.flag]
           IN  {[agent |-> da, opponent |-> db] :
                   db \in Decide(h1[b].strategy, h1[b].history)} :
           da \in Decide(h[a].strategy, h[a].history)}

\* a faulty variant: the payoff is assigned, not added
AddScores_Overwrite(h, a, b, payoff_agent, payoff_opp) ==
    LET h1 == [h EXCEPT ![a].score = payoff_agent]
    IN  [h1 EXCEPT ![b].score = payoff_opp]

\* agent.score += payoff_agent; opponent.score += payoff_opp
AddScores(h, a, b, payoff_agent, payoff_opp) ==
    LET h1 == [h EXCEPT ![a].score = @ + payoff_agent]
    IN  [h1 EXCEPT ![b].score = @ + payoff_opp]

\* agent.history.append((opponent_move, agent_move));
\* opponent.history.append((agent_move, opponent_move))
AppendHistories(h, a, b, agent_move, opponent_move) ==
    LET h1 == [h EXCEPT ![a].history = Append(@, <<opponent_move, agent_move>>)]
    IN  [h1 EXCEPT ![b].history = Append(@, <<agent_move, opponent_move>>)]

\* the dict appended to match_history for one round
RoundEntry(h, a, b, agent_move, opponent_move, payoff_agent, payoff_opp) ==
    [agent_move        |-> agent_move,
     opponent_move     |-> opponent_move,
     agent_payoff      |-> payoff_agent,
     opponent_payoff   |-> payoff_opp,
     agent_strategy    |-> h[a].strategy_name,
     opponent_strategy |-> h[b].strategy_name]

\* a faulty variant: the strategy flags are class attributes, so a decision
\* writes the flag of every agent of the same strategy
RoundResult_ClassLevelFlags(h, rec, a, b, d) ==
    LET h1  == [o \in DOMAIN h |->
                   IF h[o].strategy_name = h[a].strategy_name
                   THEN [h[o] EXCEPT !.strategy.flag = d.agent.flag] ELSE h[o]]
        h2  == [o \in DOMAIN h1 |->
                   IF h1[o].strategy_name = h1[b].strategy_name
                   THEN [h1[o] EXCEPT !.strategy.flag = d.opponent.flag] ELSE h1[o]]
        pay == PAYOFF_MATRIX(d.agent.move, d.opponent.move)
        h3  == AddScores(h2, a, b, pay[1], pay[2])
    IN  [heap |-> AppendHistories(h3, a, b, d.agent.move, d.opponent.move),
         rec  |-> Append(rec, RoundEntry(h3, a, b, d.agent.move, d.opponent.move,
                                         pay[1], pay[2]))]

\* one iteration of the loop with the decisions d: the heap and the record
\* it leaves
RoundResult(h, rec, a, b, d) ==
    LET h1  == [h EXCEPT ![a].strategy.flag = d.agent.flag]
        h2  == [h1 EXCEPT ![b].strategy.flag = d.opponent.flag]
        pay == PAYOFF_MATRIX(d.agent.move, d.opponent.move)
        h3  == AddScores(h2, a, b, pay[1], pay[2])
    IN  [heap |-> AppendHistories(h3, a, b, d.agent.move, d.opponent.move),
         rec  |-> Append(rec, RoundEntry(h3, a, b, d.agent.move, d.opponent.move,
                                         pay[1], pay[2]))]

\* play_match_record(agent, opponent, n) for strategies that draw nothing at
\* random: the heap it leaves and the record it returns
RECURSIVE PlayMatch(_, _, _, _)
PlayMatch(h, a, b, n) ==
    IF n = 0
    THEN [heap |-> ClearHistories(h, a, b), rec |-> <<>>]
    ELSE CHOOSE r \in UNION {{RoundResult(prev.heap, prev.rec, a, b, d) :
                                 d \in RoundDecisions(prev.heap, a, b)} :
                             prev \in {PlayMatch(h, a, b, n - 1)}} : TRUE

-----------------------------------------------------------------------------
(* run_tournament_record *)

\* a faulty variant: every ordered pair of distinct positions plays
PairPlays_AnyOrder(x, y) == x # y

\* if i < j
PairPlays(x, y) == x < y

\* random.randint(*rounds_per_game) if isinstance(rounds_per_game, tuple)
\* else rounds_per_game: the values the round count can take
RoundChoices(rpg) ==
    IF rpg.kind = "tuple" THEN rpg.value[1]..rpg.value[2] ELSE {rpg.value}

\* the dict appended to matches for one match
MatchEntry(h, ags, x, y, rec) ==
    [agent_index       |-> x,
     opponent_index    |-> y,
     agent_strategy    |-> h[ags[x + 1]].strategy_name,
     opponent_strategy |-> h[ags[y + 1]].strategy_name,
     rounds            |-> rec]

\* the next iteration of  for i ...: for j ...:
NextI(x, y, n) == IF y + 1 < n THEN x ELSE x + 1
NextJ(x, y, n) == IF y + 1 < n THEN y + 1 ELSE 0

-----------------------------------------------------------------------------
(* evolve_population *)

\* agents[eliminate_n:]
Survivors(sorted, e) == PySliceFrom(sorted, e)

\* a faulty variant: the clones are drawn from the low end of the ranking
Best_Lowest(sorted, c) == SubSeq(sorted, 1, c)

\* agents[-clone_n:]
Best(sorted, c) == PySliceFrom(sorted, -c)

\* a faulty variant: clone returns the agent itself
CloneRef_Self(fresh, b) == b

\* b.clone(): the reference returned (a new object) ...
CloneRef(fresh, b) == fresh

\* ... and the object it names
CloneObject(h, b) == NewAgent(h[b].strategy_name)

\* for a in new_agents: a.reset()
ResetAll(h, new_agents) ==
    [o \in DOMAIN h |-> IF o \in Range(new_agents) THEN AgentReset(h[o]) ELSE h[o]]

\* the list returned and the heap left behind
EvolvePopulation(ags, h, e, c) ==
    LET sorted     == SortedByScore(ags, h)
        survivors  == Survivors(sorted, e)
        best       == Best(sorted, c)
        base       == MaxOf(DOMAIN h)
        clones     == [k \in 1..Len(best) |-> CloneRef(base + k, best[k])]
        h1         == [o \in DOMAIN h \cup {base + k : k \in 1..Len(best)} |->
                          IF o \in DOMAIN h THEN h[o] ELSE CloneObject(h, best[o - base])]
        new_agents == survivors \o clones
    IN  [agents |-> new_agents, heap |-> ResetAll(h1, new_agents)]

\* object ids renamed to the first slot that names them; unreachable objects dropped
Renamed(r) ==
    [agents |-> [p \in 1..Len(r.agents) |-> FirstSlot(r.agents, p)],
     heap   |-> [q \in {FirstSlot(r.agents, p) : p \in 1..Len(r.agents)} |->
                    r.heap[r.agents[q]]]]

-----------------------------------------------------------------------------
(* call_claude: the external decision provider *)

\* call_claude's default max_retries
MaxRetries == 1

\* What one requests.post can bring back.  kind "raise": the request itself
\* raises (timeout, connection error); "http_error": raise_for_status raises;
\* "malformed": the body or the content text is not the JSON asked for;
\* "ok": a JSON object, with the value of "action" and of "reason" ("missing":
\* the key is absent).
ProviderActions == {"Trust", "Cheat", "Defect", "missing"}

ProviderReasons == {"reason of more than forty characters", "missing"}

Responses ==
    {[kind |-> k, action |-> "missing", reason |-> "missing"] :
        k \in {"raise", "http_error", "malformed"}}
    \cup {[kind |-> "ok", action |-> a, reason |-> r] :
             a \in ProviderActions, r \in ProviderReasons}

\* str.upper()
Upper(a) ==
    CASE a = "Trust"  -> "TRUST"
      [] a = "Cheat"  -> "CHEAT"
      [] a = "Defect" -> "DEFECT"

\* s[:40]
Truncate40(r) ==
    IF r = "reason of more than forty characters"
    THEN "reason of more than forty characters[:40]"
    ELSE r

\* move = result.get("action", "TRUST").upper(), before the range check
RawMove(action) == IF action = "missing" THEN "TRUST" ELSE Upper(action)

\* if move not in ("TRUST", "CHEAT"): move = "TRUST"
ParsedMove(action) ==
    IF RawMove(action) \notin Moves THEN "TRUST" ELSE RawMove(action)

\* reasoning = result.get("reason", "No reasoning provided.")[:40]
ParsedReason(reason) ==
    IF reason = "missing" THEN "No reasoning provided." ELSE Truncate40(reason)

\* the fallback returned when every attempt has failed
Fallback == [move |-> "TRUST", reasoning |-> "Claude error: see logs"]

\* a faulty variant: one retry more than max_retries
CallClaudeIteration_OneMoreRetry(resp, att, max_retries) ==
    IF resp.kind = "raise"
    THEN [result |-> "raise", move |-> "TRUST", reasoning |-> "", replaced |-> FALSE]
    ELSE IF resp.kind = "ok"
    THEN [result    |-> "return",
          move      |-> ParsedMove(resp.action),
          reasoning |-> ParsedReason(resp.reason),
          replaced  |-> resp.action = "missing" \/ Upper(resp.action) \notin Moves]
    ELSE IF att <= max_retries
    THEN [result |-> "retry", move |-> "TRUST", reasoning |-> "", replaced |-> FALSE]
    ELSE [result    |-> "return",
          move      |-> Fallback.move,
          reasoning |-> Fallback.reasoning,
          replaced  |-> TRUE]

\* One iteration of the loop of call_claude(prompt, max_retries) on response
\* resp at attempt att
CallClaudeIteration(resp, att, max_retries) ==
    IF resp.kind = "raise"
    THEN [result |-> "raise", move |-> "TRUST", reasoning |-> "", replaced |-> FALSE]
    ELSE IF resp.kind = "ok"
    THEN [result    |-> "return",
          move      |-> ParsedMove(resp.action),
          reasoning |-> ParsedReason(resp.reason),
          replaced  |-> resp.action = "missing" \/ Upper(resp.action) \notin Moves]
    ELSE IF att < max_retries
    THEN [result |-> "retry", move |-> "TRUST", reasoning |-> "", replaced |-> FALSE]
    ELSE [result    |-> "return",
          move      |-> Fallback.move,
          reasoning |-> Fallback.reasoning,
          replaced  |-> TRUE]

\* no call_claude call on its own
NoCall ==
    [max_retries |-> 0, responses |-> <<>>, status |-> "none",
     move |-> "", reasoning |-> ""]

\* One iteration of call_claude's loop on response resp at attempt att:
\* "raise" (the exception leaves call_claude), "retry" or "return".
\* replaced: the provider gave no action in range and the default was used.
CallClaudeStep(resp, att) == CallClaudeIteration(resp, att, MaxRetries)

-----------------------------------------------------------------------------
(* TrustSimGUI: the single-match run against the provider *)

MaxSimRounds == 3     \* largest round count entered in the GUI
RetryLimit == 3       \* largest max_retries call_claude is called with on its own

\* the history handed to the opponent's strategy
OpponentView(rec) == [k \in 1..Len(rec) |-> <<rec[k].agent_move, rec[k].opponent_move>>]

\* the dict appended to match_history by _run_simulation
SimEntry(n, agent_move, opponent_move, payoff_agent, payoff_opp, opp_name, reasoning) ==
    [round             |-> n,
     agent_move        |-> agent_move,
     opponent_move     |-> opponent_move,
     agent_payoff      |-> payoff_agent,
     opponent_payoff   |-> payoff_opp,
     agent_strategy    |-> "Claude",
     opponent_strategy |-> opp_name,
     reasoning         |-> reasoning]

\* no simulation thread exists: its locals hold nothing
NoThreadLocals ==
    [sim_rounds |-> 0, round_num |-> 0, opponent |-> [name |-> "none", flag |-> FALSE],
     sim_history |-> <<>>, replaced |-> <<>>, agent_score |-> 0, opponent_score |-> 0,
     attempt |-> 0]

\* TrustSimGUI.__init__ followed by reset_simulation
GuiIdle ==
    /\ running = FALSE
    /\ start_btn = "normal"
    /\ reset_btn = "normal"
    /\ sim_pc = "none"
    /\ sim_rounds = NoThreadLocals.sim_rounds
    /\ round_num = NoThreadLocals.round_num
    /\ opponent = NoThreadLocals.opponent
    /\ sim_history = NoThreadLocals.sim_history
    /\ replaced = NoThreadLocals.replaced
    /\ agent_score = NoThreadLocals.agent_score
    /\ opponent_score = NoThreadLocals.opponent_score
    /\ attempt = NoThreadLocals.attempt
    /\ claude_reason_var = ""
    /\ claude_call = NoCall

\* the locals of a thread that has ended are dropped
DropThreadLocals ==
    /\ sim_rounds' = NoThreadLocals.sim_rounds
    /\ round_num' = NoThreadLocals.round_num
    /\ opponent' = NoThreadLocals.opponent
    /\ sim_history' = NoThreadLocals.sim_history
    /\ replaced' = NoThreadLocals.replaced
    /\ agent_score' = NoThreadLocals.agent_score
    /\ opponent_score' = NoThreadLocals.opponent_score
    /\ attempt' = NoThreadLocals.attempt

\* the Start button
StartSimulation ==
    /\ start_btn = "normal"
    /\ IF running
       THEN UNCHANGED <<running, start_btn, reset_btn, sim_pc, sim_rounds, round_num,
                        opponent, sim_history, replaced, agent_score, opponent_score,
                        attempt>>
       ELSE /\ running' = TRUE
            /\ start_btn' = "disabled"
            /\ reset_btn' = "disabled"
            /\ sim_pc' = "begin"
            /\ DropThreadLocals
    /\ UNCHANGED claude_reason_var
    /\ UNCHANGED claude_call
    /\ UNCHANGED coreVars

\* the Reset button
ResetSimulation ==
    /\ reset_btn = "normal"
    /\ running' = FALSE
    /\ start_btn' = "normal"
    /\ reset_btn' = "normal"
    /\ claude_reason_var' = ""
    /\ IF sim_pc = "none"
       THEN DropThreadLocals
       ELSE UNCHANGED <<sim_rounds, round_num, opponent, sim_history, replaced,
                        agent_score, opponent_score, attempt>>
    /\ UNCHANGED sim_pc
    /\ UNCHANGED claude_call
    /\ UNCHANGED coreVars

\* _run_simulation up to its loop: the round count and the opponent are read
SimBegin ==
    /\ sim_pc = "begin"
    /\ \E n \in 0..MaxSimRounds : sim_rounds' = n
    /\ \E name \in Strategies : opponent' = NewStrategy(name)
    /\ sim_history' = <<>>
    /\ replaced' = <<>>
    /\ agent_score' = 0
    /\ opponent_score' = 0
    /\ round_num' = 1
    /\ sim_pc' = "loop"
    /\ UNCHANGED <<running, start_btn, reset_btn, attempt, claude_reason_var>>
    /\ UNCHANGED claude_call
    /\ UNCHANGED coreVars

\* the top of the loop: the stop flag is read, then call_claude is entered
SimLoop ==
    /\ sim_pc = "loop"
    /\ round_num <= sim_rounds
    /\ running
    /\ attempt' = 0
    /\ sim_pc' = "call"
    /\ UNCHANGED <<running, start_btn, reset_btn, sim_rounds, round_num, opponent,
                   sim_history, replaced, agent_score, opponent_score,
                   claude_reason_var>>
    /\ UNCHANGED claude_call
    /\ UNCHANGED coreVars

\* the loop is left (all rounds played, or running found false)
SimEnd ==
    /\ sim_pc = "loop"
    /\ round_num > sim_rounds \/ ~running
    /\ running' = FALSE
    /\ start_btn' = "normal"
    /\ reset_btn' = "normal"
    /\ sim_pc' = "none"
    /\ UNCHANGED <<sim_rounds, round_num, opponent, sim_history, replaced,
                   agent_score, opponent_score, attempt, claude_reason_var>>
    /\ UNCHANGED claude_call
    /\ UNCHANGED coreVars

\* requests.post raises: the exception leaves call_claude and is caught by
\* _run_simulation, which returns
ClaudeRaises ==
    /\ sim_pc = "call"
    /\ \E resp \in Responses : CallClaudeStep(resp, attempt).result = "raise"
    /\ claude_reason_var' = "Claude error: exception"
    /\ running' = FALSE
    /\ sim_pc' = "none"
    /\ UNCHANGED <<start_btn, reset_btn, sim_rounds, round_num, opponent,
                   sim_history, replaced, agent_score, opponent_score, attempt>>
    /\ UNCHANGED claude_call
    /\ UNCHANGED coreVars

\* a response that fails inside the try block, with attempts left
ClaudeRetry ==
    /\ sim_pc = "call"
    /\ \E resp \in Responses : CallClaudeStep(resp, attempt).result = "retry"
    /\ attempt' = attempt + 1
    /\ UNCHANGED <<running, start_btn, reset_btn, sim_pc, sim_rounds, round_num,
                   opponent, sim_history, replaced, agent_score, opponent_score,
                   claude_reason_var>>
    /\ UNCHANGED claude_call
    /\ UNCHANGED coreVars

\* call_claude returns (move, reasoning); the rest of the round follows
ClaudeReturns ==
    /\ sim_pc = "call"
    /\ \E resp \in Responses :
          LET o == CallClaudeStep(resp, attempt)
          IN  /\ o.result = "return"
              /\ \E d \in Decide(opponent, OpponentView(sim_history)) :
                    LET pay == PAYOFF_MATRIX(o.move, d.move)
                    IN  /\ opponent' = [opponent EXCEPT !.flag = d.flag]
                        /\ agent_score' = agent_score + pay[1]
                        /\ opponent_score' = opponent_score + pay[2]
                        /\ sim_history' =
                               Append(sim_history,
                                      SimEntry(round_num, o.move, d.move, pay[1], pay[2],
                                               opponent.name, o.reasoning))
                        /\ replaced' = Append(replaced, o.replaced)
                        /\ claude_reason_var' = o.reasoning
    /\ round_num' = round_num + 1
    /\ sim_pc' = "loop"
    /\ UNCHANGED <<running, start_btn, reset_btn, sim_rounds, attempt>>
    /\ UNCHANGED claude_call
    /\ UNCHANGED coreVars

-----------------------------------------------------------------------------
(* Initial states *)

\* reset_simulation: n agents, each of a strategy drawn from the configured list
InitPopulation(n, strategies) ==
    /\ num_agents = n
    /\ agents = [p \in 1..n |-> p]
    /\ \E names \in [1..n -> strategies] : heap = [p \in 1..n |-> NewAgent(names[p])]
    /\ pc = "start"
    /\ i = 0
    /\ j = 0
    /\ rounds = 0
    /\ match_history = <<>>
    /\ score_before = <<0, 0>>
    /\ matches = <<>>
    /\ eliminate_n = 0
    /\ clone_n = 0
    /\ evolve_in = <<>>
    /\ evolve_out = <<>>

\* The tournament specification: NumAgents agents of the strategies that draw
\* nothing at random, every match of the same configured length.
Init ==
    /\ \E n \in 0..MaxRounds : rounds_per_game = [kind |-> "int", value |-> n]
    /\ InitPopulation(NumAgents, Strategies \ {"Random"})
    /\ GuiIdle

\* The two-agent specification: one pair of agents of any strategies, the
\* length of each match drawn from the range (0, LongRounds).
InitMatch ==
    /\ rounds_per_game = [kind |-> "tuple", value |-> <<0, LongRounds>>]
    /\ InitPopulation(2, Strategies)
    /\ GuiIdle

\* The GUI specification: the window as constructed; the population of the
\* tournament is not used by the single-match run.
InitGUI ==
    /\ GuiIdle
    /\ agents = <<>>
    /\ heap = <<>>
    /\ rounds_per_game = [kind |-> "int", value |-> 0]
    /\ num_agents = 0
    /\ pc = "idle"
    /\ i = 0
    /\ j = 0
    /\ rounds = 0
    /\ match_history = <<>>
    /\ score_before = <<0, 0>>
    /\ matches = <<>>
    /\ eliminate_n = 0
    /\ clone_n = 0
    /\ evolve_in = <<>>
    /\ evolve_out = <<>>

-----------------------------------------------------------------------------
(* Actions *)

\* run_tournament_record is entered: matches = []
StartTournament ==
    /\ pc \in {"start", "evolved"}
    /\ Len(agents) <= num_agents
    /\ pc' = "loop"
    /\ i' = 0
    /\ j' = 0
    /\ matches' = <<>>
    /\ eliminate_n' = 0
    /\ clone_n' = 0
    /\ evolve_in' = <<>>
    /\ evolve_out' = <<>>
    /\ UNCHANGED <<agents, heap, rounds_per_game, num_agents, rounds,
                   match_history, score_before>>
    /\ UNCHANGED guiVars

\* an iteration of the double loop whose pair does not play
SkipPair ==
    /\ pc = "loop"
    /\ i < Len(agents)
    /\ ~PairPlays(i, j)
    /\ i' = NextI(i, j, Len(agents))
    /\ j' = NextJ(i, j, Len(agents))
    /\ UNCHANGED <<agents, heap, rounds_per_game, num_agents, pc, rounds,
                   match_history, score_before, matches, eliminate_n, clone_n,
                   evolve_in, evolve_out>>
    /\ UNCHANGED guiVars

\* the round count is drawn and play_match_record is entered
StartMatch ==
    /\ pc = "loop"
    /\ i < Len(agents)
    /\ PairPlays(i, j)
    /\ \E n \in RoundChoices(rounds_per_game) : rounds' = n
    /\ heap' = ClearHistories(heap, agents[i + 1], agents[j + 1])
    /\ match_history' = <<>>
    /\ score_before' = <<heap[agents[i + 1]].score, heap[agents[j + 1]].score>>
    /\ pc' = "round"
    /\ UNCHANGED <<agents, rounds_per_game, num_agents, i, j, matches,
                   eliminate_n, clone_n, evolve_in, evolve_out>>
    /\ UNCHANGED guiVars

\* one iteration of play_match_record's loop
PlayRound ==
    /\ pc = "round"
    /\ MoreRounds(Len(match_history), rounds)
    /\ LET a == agents[i + 1]
           b == agents[j + 1]
       IN  \E d \in RoundDecisions(heap, a, b) :
             LET r == RoundResult(heap, match_history, a, b, d)
             IN  /\ heap' = r.heap
                 /\ match_history' = r.rec
    /\ UNCHANGED <<agents, rounds_per_game, num_agents, pc, i, j, rounds,
                   score_before, matches, eliminate_n, clone_n, evolve_in, evolve_out>>
    /\ UNCHANGED guiVars

\* play_match_record returns; its record is appended to matches
EndMatch ==
    /\ pc = "round"
    /\ ~MoreRounds(Len(match_history), rounds)
    /\ matches' = Append(matches, MatchEntry(heap, agents, i, j, match_history))
    /\ i' = NextI(i, j, Len(agents))
    /\ j' = NextJ(i, j, Len(agents))
    /\ pc' = "loop"
    /\ UNCHANGED <<agents, heap, rounds_per_game, num_agents, rounds,
                   match_history, score_before, eliminate_n, clone_n, evolve_in, evolve_out>>
    /\ UNCHANGED guiVars

\* run_tournament_record returns matches
EndTournament ==
    /\ pc = "loop"
    /\ i >= Len(agents)
    /\ pc' = "evolve"
    /\ UNCHANGED <<agents, heap, rounds_per_game, num_agents, i, j, rounds,
                   match_history, score_before, matches, eliminate_n, clone_n,
                   evolve_in, evolve_out>>
    /\ UNCHANGED guiVars

\* what evolve_population is called on, slot by slot
Snapshot(ags, h) ==
    [p \in 1..Len(ags) |->
        [ref |-> ags[p], strategy_name |-> h[ags[p]].strategy_name, score |-> h[ags[p]].score]]

\* evolve_population(agents, eliminate_n, clone_n)
Evolve ==
    /\ pc = "evolve"
    /\ \E e \in 0..(Len(agents) + 1), c \in 0..(Len(agents) + 1) :
          LET r == Renamed(EvolvePopulation(agents, heap, e, c))
          IN  /\ agents' = r.agents
              /\ heap' = r.heap
              /\ eliminate_n' = e
              /\ clone_n' = c
              /\ evolve_out' = EvolvePopulation(agents, heap, e, c).agents
    /\ evolve_in' = Snapshot(agents, heap)
    /\ pc' = "evolved"
    /\ i' = 0
    /\ j' = 0
    /\ rounds' = 0
    /\ match_history' = <<>>
    /\ score_before' = <<0, 0>>
    /\ matches' = <<>>
    /\ UNCHANGED <<rounds_per_game, num_agents>>
    /\ UNCHANGED guiVars

Next ==
    \/ StartTournament
    \/ SkipPair
    \/ StartMatch
    \/ PlayRound
    \/ EndMatch
    \/ EndTournament
    \/ Evolve

Spec == Init /\ [][Next]_vars

SpecMatch == InitMatch /\ [][Next]_vars

\* The series specification: one tournament of three agents, the third a
\* Random, so that each of the first two meets the other first and then an
\* opponent that can play any sequence of moves.
InitSeries ==
    /\ \E n \in 0..SeriesRounds : rounds_per_game = [kind |-> "int", value |-> n]
    /\ num_agents = 3
    /\ agents = <<1, 2, 3>>
    /\ \E first, second \in Strategies \ {"Random"} :
          heap = <<NewAgent(first), NewAgent(second), NewAgent("Random")>>
    /\ pc = "start"
    /\ i = 0
    /\ j = 0
    /\ rounds = 0
    /\ match_history = <<>>
    /\ score_before = <<0, 0>>
    /\ matches = <<>>
    /\ eliminate_n = 0
    /\ clone_n = 0
    /\ evolve_in = <<>>
    /\ evolve_out = <<>>
    /\ GuiIdle

NextSeries ==
    \/ StartTournament
    \/ SkipPair
    \/ StartMatch
    \/ PlayRound
    \/ EndMatch
    \/ EndTournament

SpecSeries == InitSeries /\ [][NextSeries]_vars

\* The two-pair specification: four agents of the strategies that draw nothing
\* at random; the matches of positions (0, 1) and (2, 3) are played at the same
\* time, their rounds interleaved in any order.
InitPairs ==
    /\ \E n \in 0..PairRounds : rounds_per_game = [kind |-> "int", value |-> n]
    /\ InitPopulation(4, Strategies \ {"Random"})
    /\ GuiIdle

\* both play_match_record calls are entered
BeginMatches ==
    /\ pc = "start"
    /\ Len(agents) = 4
    /\ heap' = ClearHistories(ClearHistories(heap, agents[1], agents[2]),
                              agents[3], agents[4])
    /\ matches' = <<MatchEntry(heap, agents, 0, 1, <<>>),
                    MatchEntry(heap, agents, 2, 3, <<>>)>>
    /\ rounds' = rounds_per_game.value
    /\ pc' = "interleave"
    /\ UNCHANGED <<agents, rounds_per_game, num_agents, i, j, match_history,
                   score_before, eliminate_n, clone_n, evolve_in, evolve_out>>
    /\ UNCHANGED guiVars

\* one iteration of the loop of the k-th of the two matches
RoundOfMatch(k) ==
    /\ pc = "interleave"
    /\ MoreRounds(Len(matches[k].rounds), rounds)
    /\ LET a == agents[matches[k].agent_index + 1]
           b == agents[matches[k].opponent_index + 1]
       IN  \E d \in RoundDecisions(heap, a, b) :
             LET r == RoundResult(heap, matches[k].rounds, a, b, d)
             IN  /\ heap' = r.heap
                 /\ matches' = [matches EXCEPT ![k].rounds = r.rec]
    /\ UNCHANGED <<agents, rounds_per_game, num_agents, pc, i, j, rounds,
                   match_history, score_before, eliminate_n, clone_n, evolve_in,
                   evolve_out>>
    /\ UNCHANGED guiVars

NextPairs ==
    \/ BeginMatches
    \/ RoundOfMatch(1)
    \/ RoundOfMatch(2)

SpecPairs == InitPairs /\ [][NextPairs]_vars

\* The stop specification: a two-agent tournament played while the stop flag
\* is up (a run is in progress), the flag being lowered at any moment.
InitStop ==
    /\ \E n \in 0..MaxRounds : rounds_per_game = [kind |-> "int", value |-> n]
    /\ InitPopulation(2, Strategies \ {"Random"})
    /\ running = TRUE
    /\ start_btn = "disabled"
    /\ reset_btn = "disabled"
    /\ sim_pc = "none"
    /\ sim_rounds = NoThreadLocals.sim_rounds
    /\ round_num = NoThreadLocals.round_num
    /\ opponent = NoThreadLocals.opponent
    /\ sim_history = NoThreadLocals.sim_history
    /\ replaced = NoThreadLocals.replaced
    /\ agent_score = NoThreadLocals.agent_score
    /\ opponent_score = NoThreadLocals.opponent_score
    /\ attempt = NoThreadLocals.attempt
    /\ claude_reason_var = ""
    /\ claude_call = NoCall

\* self.running = False: the stop signal is raised
RaiseStop ==
    /\ running
    /\ running' = FALSE
    /\ UNCHANGED <<start_btn, reset_btn, sim_pc, sim_rounds, round_num, opponent,
                   sim_history, replaced, agent_score, opponent_score, attempt,
                   claude_reason_var>>
    /\ UNCHANGED claude_call
    /\ UNCHANGED coreVars

NextStop ==
    \/ Next
    \/ RaiseStop

SpecStop == InitStop /\ [][NextStop]_vars

\* The provider specification: call_claude(prompt, max_retries) called on its
\* own with max_retries in 0..RetryLimit, the provider answering each request
\* in any way.
InitClaude ==
    /\ \E r \in 0..RetryLimit :
          claude_call = [NoCall EXCEPT !.max_retries = r, !.status = "pending"]
    /\ running = FALSE
    /\ start_btn = "normal"
    /\ reset_btn = "normal"
    /\ sim_pc = "none"
    /\ sim_rounds = NoThreadLocals.sim_rounds
    /\ round_num = NoThreadLocals.round_num
    /\ opponent = NoThreadLocals.opponent
    /\ sim_history = NoThreadLocals.sim_history
    /\ replaced = NoThreadLocals.replaced
    /\ agent_score = NoThreadLocals.agent_score
    /\ opponent_score = NoThreadLocals.opponent_score
    /\ attempt = NoThreadLocals.attempt
    /\ claude_reason_var = ""
    /\ agents = <<>>
    /\ heap = <<>>
    /\ rounds_per_game = [kind |-> "int", value |-> 0]
    /\ num_agents = 0
    /\ pc = "idle"
    /\ i = 0
    /\ j = 0
    /\ rounds = 0
    /\ match_history = <<>>
    /\ score_before = <<0, 0>>
    /\ matches = <<>>
    /\ eliminate_n = 0
    /\ clone_n = 0
    /\ evolve_in = <<>>
    /\ evolve_out = <<>>

\* one iteration of call_claude's loop: a request, and what follows its answer
ClaudeRequest ==
    /\ claude_call.status = "pending"
    /\ \E resp \in Responses :
          LET o == CallClaudeIteration(resp, Len(claude_call.responses),
                                       claude_call.max_retries)
          IN  claude_call' =
                  [claude_call EXCEPT
                      !.responses = Append(@, resp),
                      !.status = IF o.result = "retry" THEN "pending"
                                 ELSE IF o.result = "raise" THEN "raised"
                                 ELSE "returned",
                      !.move = IF o.result = "return" THEN o.move ELSE @,
                      !.reasoning = IF o.result = "return" THEN o.reasoning ELSE @]
    /\ UNCHANGED <<running, start_btn, reset_btn, sim_pc, sim_rounds, round_num,
                   opponent, sim_history, replaced, agent_score, opponent_score,
                   attempt, claude_reason_var>>
    /\ UNCHANGED coreVars

NextClaude ==
    \/ ClaudeRequest

SpecClaude == InitClaude /\ [][NextClaude]_vars

NextGUI ==
    \/ StartSimulation
    \/ ResetSimulation
    \/ SimBegin
    \/ SimLoop
    \/ SimEnd
    \/ ClaudeRaises
    \/ ClaudeRetry
    \/ ClaudeReturns

SpecGUI == InitGUI /\ [][NextGUI]_vars

-----------------------------------------------------------------------------
(* Properties *)

\* the two participants of the match being played
Agent1 == agents[i + 1]
Agent2 == agents[j + 1]

RECURSIVE SumAgentPayoff(_)
SumAgentPayoff(rec) ==
    IF rec = <<>> THEN 0
    ELSE rec[Len(rec)].agent_payoff + SumAgentPayoff(SubSeq(rec, 1, Len(rec) - 1))

RECURSIVE SumOpponentPayoff(_)
SumOpponentPayoff(rec) ==
    IF rec = <<>> THEN 0
    ELSE rec[Len(rec)].opponent_payoff + SumOpponentPayoff(SubSeq(rec, 1, Len(rec) - 1))

\* Detective's opening probe
Probe == <<"TRUST", "CHEAT", "TRUST", "TRUST">>

\* in history h (pairs (opponent, own)) the owner played the probe in every
\* round of 1-4 before which the opponent had not defected
PlaysProbe(h) ==
    \A k \in 1..Len(h) :
        (k <= 4 /\ \A m \in 1..(k - 1) : h[m][1] # "CHEAT") => h[k][2] = Probe[k]

\* the flag a freshly constructed strategy of this name holds when it decides
\* round k of history h, and the move it then makes (strategies other than Random)
RECURSIVE FreshFlag(_, _, _)
FreshFlag(name, h, k) ==
    IF k = 1 THEN NewStrategy(name).flag
    ELSE (CHOOSE d \in Decide([name |-> name, flag |-> FreshFlag(name, h, k - 1)],
                              SubSeq(h, 1, k - 2)) : TRUE).flag

FreshMove(name, h, k) ==
    (CHOOSE d \in Decide([name |-> name, flag |-> FreshFlag(name, h, k)],
                         SubSeq(h, 1, k - 1)) : TRUE).move

\* C1: in every match of a tournament, the second and later ones of an agent
\* included, both participants decide from the strategy state of a freshly
\* constructed strategy (Grudger's grudge, Detective's switched): every move
\* played is the one a fresh strategy makes on the same history, so a
\* Detective whose opponent has not defected plays TRUST, CHEAT, TRUST, TRUST
\* in rounds 1-4 of every match.
C1_FreshStrategyStateEveryMatch ==
    pc = "round" =>
        \A o \in {Agent1, Agent2} :
            LET h == heap[o].history
            IN  /\ \A k \in 1..Len(h) : h[k][2] = FreshMove(heap[o].strategy_name, h, k)
                /\ heap[o].strategy_name = "Detective" => PlaysProbe(h)

\* C2: a Detective, fresh at the start of the match, whose opponent cooperated
\* in all of rounds 1-4 defects in round 5 and in every later round, whatever
\* the opponent plays from round 5 on.
C2_DetectiveDefectsFromRound5 ==
    pc = "round" =>
        \A o \in {Agent1, Agent2} :
            LET h == heap[o].history
            IN  (/\ heap[o].strategy_name = "Detective"
                 /\ Len(h) >= 5
                 /\ \A m \in 1..4 : h[m][1] = "TRUST")
                => \A k \in 5..Len(h) : h[k][2] = "CHEAT"

\* C3: a Simpleton that defects in round k because in round k-1 it cooperated
\* and the opponent defected cooperates again in round k+1: the triggered
\* defection lasts a single round.
C3_SimpletonDefectsOnce ==
    pc = "round" =>
        \A o \in {Agent1, Agent2} :
            LET h == heap[o].history
            IN  heap[o].strategy_name = "Simpleton" =>
                    \A k \in 2..(Len(h) - 1) :
                        (h[k - 1] = <<"CHEAT", "TRUST">> /\ h[k][2] = "CHEAT")
                        => h[k + 1][2] = "TRUST"

\* C4: evolve_population called with eliminate_n = clone_n = E, 0 <= E <= K, on
\* a population of K agents returns K agents.
C4_EqualCountsConserveSize ==
    (pc = "evolved" /\ eliminate_n = clone_n /\ eliminate_n <= Len(evolve_in))
    => Len(agents) = Len(evolve_in)

\* C5: however the external decision call fails, the match is not aborted: the
\* simulation thread ends only with every configured round recorded.
C5_FailedCallNeverAbortsMatch ==
    sim_pc = "none" => Len(sim_history) = sim_rounds

\* the rationale is a diagnostic of call_claude, not the provider's own text
\* nor the default for a missing reason
IsDiagnostic(reasoning) == reasoning = Fallback.reasoning

\* C6: whenever the provider's action was replaced by the default action, the
\* rationale recorded for that round is a diagnostic message.
C6_ReplacementIsDiagnosed ==
    \A k \in 1..Len(sim_history) : replaced[k] => IsDiagnostic(sim_history[k].reasoning)

\* C7: evolve_population produces no population when eliminate_n or clone_n
\* exceeds the population size.
C7_OversizedCountsRejected ==
    pc = "evolved" => (eliminate_n <= Len(evolve_in) /\ clone_n <= Len(evolve_in))

\* C8: the list returned by run_tournament_record on K agents holds
\* K*(K-1)/2 records, no record pairs a position with itself, and every
\* unordered pair of distinct positions is in exactly one record.
C8_RoundRobinOnce ==
    pc = "evolve" =>
        LET K == Len(agents)
        IN  /\ 2 * Len(matches) = K * (K - 1)
            /\ \A k \in 1..Len(matches) :
                   /\ matches[k].agent_index \in 0..(K - 1)
                   /\ matches[k].opponent_index \in 0..(K - 1)
                   /\ matches[k].agent_index # matches[k].opponent_index
            /\ \A x, y \in 0..(K - 1) :
                   x # y =>
                       Cardinality({k \in 1..Len(matches) :
                           {matches[k].agent_index, matches[k].opponent_index} = {x, y}}) = 1

C8_Witness ==
    /\ pc = "evolve"
    /\ Len(agents) = NumAgents
    /\ Len(matches) = 3

\* C9: the record play_match_record returns for round count N has exactly N
\* entries (none for N = 0), and entries are only ever added at the end, one
\* per round played.
C9_CountHolds ==
    /\ pc = "round" => Len(match_history) <= rounds
    /\ (pc \in {"loop", "evolve"} /\ matches # <<>>) =>
           Len(matches[Len(matches)].rounds) = rounds

C9_AppendOnly ==
    (pc = "round" /\ pc' = "round") =>
        /\ Len(match_history') = Len(match_history) + 1
        /\ SubSeq(match_history', 1, Len(match_history)) = match_history

C9_ExactlyNEntriesInOrder == [](C9_CountHolds) /\ [][C9_AppendOnly]_vars

C9_Witness ==
    /\ pc = "evolve"
    /\ matches # <<>>
    /\ rounds = LongRounds
    /\ Len(matches[Len(matches)].rounds) = LongRounds

\* C10: during and after every match each participant's score, less its score
\* when the match began, is the sum of its payoffs over the record; a 0-round
\* match leaves both scores as they were.
C10_ScoreDeltaIsPayoffSum ==
    /\ pc = "round" =>
           /\ heap[Agent1].score - score_before[1] = SumAgentPayoff(match_history)
           /\ heap[Agent2].score - score_before[2] = SumOpponentPayoff(match_history)
    /\ (pc \in {"loop", "evolve"} /\ matches # <<>>) =>
           LET m == matches[Len(matches)]
           IN  /\ heap[agents[m.agent_index + 1]].score - score_before[1]
                      = SumAgentPayoff(m.rounds)
               /\ heap[agents[m.opponent_index + 1]].score - score_before[2]
                      = SumOpponentPayoff(m.rounds)

C10_Witness ==
    /\ pc = "evolve"
    /\ matches # <<>>
    /\ score_before[1] # 0
    /\ score_before[2] # 0
    /\ Len(matches[Len(matches)].rounds) = MaxRounds
    /\ SumAgentPayoff(matches[Len(matches)].rounds) # 0

\* C11: every agent of the population evolve_population returns, survivor or
\* clone, has score 0, an empty history and the strategy state of a freshly
\* constructed strategy, whatever the agents it was called on carried.
C11_ReturnedAgentsAreFresh ==
    pc = "evolved" =>
        \A p \in 1..Len(agents) :
            LET a == heap[agents[p]]
            IN  /\ a.score = 0
                /\ a.history = <<>>
                /\ a.strategy = NewStrategy(a.strategy_name)

\* a population whose agents carried scores was evolved, and some of them survived
C11_Witness ==
    /\ pc = "evolved"
    /\ eliminate_n = 0
    /\ clone_n = 1
    /\ \A p \in 1..Len(evolve_in) : evolve_in[p].score # 0
    /\ Len(agents) = NumAgents + 1

\* the place of slot p of a snapshot in the ascending ranking by score, equal
\* scores keeping the order of their slots; and the slot that holds place r
StableRank(snap, p) ==
    1 + Cardinality({q \in 1..Len(snap) :
                        \/ snap[q].score < snap[p].score
                        \/ (snap[q].score = snap[p].score /\ q < p)})

SlotOfRank(snap, r) == CHOOSE p \in 1..Len(snap) : StableRank(snap, p) = r

\* C12: for 1 <= clone_n <= K and 0 <= eliminate_n <= K, evolve_population
\* returns the agents it was called on other than the eliminate_n
\* lowest-scoring, in ascending score order, followed by one fresh clone, of the
\* same strategy name, of each of the clone_n highest-scoring; a cloned agent
\* that survives stays in the population as itself.
C12_SurvivorsThenClones ==
    (pc = "evolved" /\ clone_n \in 1..Len(evolve_in) /\ eliminate_n \in 0..Len(evolve_in)) =>
        LET K   == Len(evolve_in)
            e   == eliminate_n
            c   == clone_n
            old == {evolve_in[p].ref : p \in 1..K}
        IN  /\ Len(evolve_out) = (K - e) + c
            /\ Len(agents) = Len(evolve_out)
            /\ \A p, q \in 1..Len(agents) : p # q => agents[p] # agents[q]
            /\ \A k \in 1..(K - e) :
                   LET slot == evolve_in[SlotOfRank(evolve_in, e + k)]
                   IN  /\ evolve_out[k] = slot.ref
                       /\ heap[agents[k]].strategy_name = slot.strategy_name
            /\ \A k \in 1..c :
                   LET slot == evolve_in[SlotOfRank(evolve_in, K - c + k)]
                   IN  /\ evolve_out[K - e + k] \notin old
                       /\ \A m \in 1..c : m # k => evolve_out[K - e + m] # evolve_out[K - e + k]
                       /\ heap[agents[K - e + k]].strategy_name = slot.strategy_name

\* the lowest-scoring of three agents was eliminated and the two highest-scoring,
\* both survivors, were cloned; the ranking differs from the order of the slots
C12_Witness ==
    /\ pc = "evolved"
    /\ Len(evolve_in) = NumAgents
    /\ eliminate_n = 1
    /\ clone_n = 2
    /\ evolve_in[1].score > evolve_in[Len(evolve_in)].score
    /\ evolve_in[1].strategy_name # evolve_in[Len(evolve_in)].strategy_name

\* C13: once the stop signal has been raised while a match is in progress, no
\* further round of that match is played: the record of the match keeps
\* exactly the rounds it held, each with its moves and payoffs.
C13_NoRoundAfterStop ==
    [][(~running /\ pc = "round") => match_history' = match_history]_vars

\* the moves a strategy object can return on a history
MovesOf(strategy, history) == {d.move : d \in Decide(strategy, history)}

\* C14: when round k of a match is played, each participant's history holds
\* exactly rounds 1..k-1 of that match, and each of the two moves recorded for
\* round k is one its player's decide returns on that history: neither move
\* depends on the other move of the same round.
C14_RoundPlayed ==
    (pc = "round" /\ match_history' # match_history) =>
        LET k == Len(match_history)
            e == match_history'[k + 1]
        IN  /\ Len(heap[Agent1].history) = k
            /\ Len(heap[Agent2].history) = k
            /\ \A m \in 1..k :
                   /\ heap[Agent1].history[m] =
                          <<match_history[m].opponent_move, match_history[m].agent_move>>
                   /\ heap[Agent2].history[m] =
                          <<match_history[m].agent_move, match_history[m].opponent_move>>
            /\ e.agent_move \in MovesOf(heap[Agent1].strategy, heap[Agent1].history)
            /\ e.opponent_move \in MovesOf(heap[Agent2].strategy, heap[Agent2].history)

C14_DecisionsFromEarlierRounds == [][C14_RoundPlayed]_vars

\* a Tit-for-Tat opponent answered in round 2 the agent's move of round 1,
\* the agent playing the other move in round 2
C14_Witness ==
    /\ pc = "round"
    /\ Len(match_history) >= 2
    /\ heap[Agent2].strategy_name = "Tit-for-Tat"
    /\ match_history[1].agent_move = "TRUST"
    /\ match_history[2].agent_move = "CHEAT"
    /\ match_history[2].opponent_move = "TRUST"

\* C15: in every match a Grudger's decision is CHEAT exactly when the opponent
\* has played CHEAT in an earlier round of that match: once the opponent has
\* defected the Grudger defects in every later round, whatever the opponent
\* plays afterwards, and a grudge left by an earlier match has no effect.
C15_GrudgerDefectsIffOpponentDefected ==
    pc = "round" =>
        \A o \in {Agent1, Agent2} :
            LET h == heap[o].history
            IN  heap[o].strategy_name = "Grudger" =>
                    \A k \in 1..Len(h) :
                        h[k][2] = "CHEAT" <=> \E m \in 1..(k - 1) : h[m][1] = "CHEAT"

\* a Grudger that was cheated in its first match trusted in rounds 1 and 2 of
\* its second match, was cheated in round 2 and played CHEAT in rounds 3 and 4
\* against an opponent that went back to TRUST
C15_Witness ==
    /\ pc = "round"
    /\ i = 0
    /\ j = 2
    /\ heap[Agent1].strategy_name = "Grudger"
    /\ Len(matches) = 1
    /\ \E k \in 1..Len(matches[1].rounds) : matches[1].rounds[k].opponent_move = "CHEAT"
    /\ heap[Agent1].history =
           << <<"TRUST", "TRUST">>, <<"CHEAT", "TRUST">>, <<"TRUST", "CHEAT">>,
              <<"TRUST", "CHEAT">> >>

\* C16: in a match whose opponent first defects in one of rounds 1-4, every
\* decision of a Detective from the round after that defection on is the
\* opponent's move of the round before.
C16_DetectiveMirrorsAfterDefect ==
    pc = "round" =>
        \A o \in {Agent1, Agent2} :
            LET h == heap[o].history
            IN  heap[o].strategy_name = "Detective" =>
                    \A f \in 1..4 :
                        (/\ f <= Len(h)
                         /\ h[f][1] = "CHEAT"
                         /\ \A m \in 1..(f - 1) : h[m][1] # "CHEAT")
                        => \A k \in (f + 1)..Len(h) : h[k][2] = h[k - 1][1]

\* a Detective first cheated in round 4 answered CHEAT in round 5 and, the
\* opponent back to TRUST in round 5, TRUST in round 6
C16_Witness ==
    /\ pc = "round"
    /\ heap[Agent1].strategy_name = "Detective"
    /\ heap[Agent1].history =
           << <<"TRUST", "TRUST">>, <<"TRUST", "CHEAT">>, <<"TRUST", "TRUST">>,
              <<"CHEAT", "TRUST">>, <<"TRUST", "CHEAT">>, <<"CHEAT", "TRUST">> >>

\* C17: a Copykitten's decision is CHEAT exactly when at least two rounds have
\* been played and the opponent played CHEAT in both of the two most recent
\* ones; with fewer than two rounds played it is TRUST.
C17_CopykittenNeedsTwoDefects ==
    pc = "round" =>
        \A o \in {Agent1, Agent2} :
            LET h == heap[o].history
            IN  heap[o].strategy_name = "Copykitten" =>
                    \A k \in 1..Len(h) :
                        h[k][2] = "CHEAT" <=>
                            (k >= 3 /\ h[k - 1][1] = "CHEAT" /\ h[k - 2][1] = "CHEAT")

\* a Copykitten trusted after a single defection, defected after two in a row
\* and trusted again once the opponent had cooperated
C17_Witness ==
    /\ pc = "round"
    /\ heap[Agent2].strategy_name = "Copykitten"
    /\ heap[Agent2].history =
           << <<"CHEAT", "TRUST">>, <<"TRUST", "TRUST">>, <<"CHEAT", "TRUST">>,
              <<"CHEAT", "TRUST">>, <<"TRUST", "CHEAT">>, <<"TRUST", "TRUST">> >>

\* the first move of every participant whose strategy is not among skipped
OpeningMoves(skipped) ==
    {heap[o].history[1][2] :
        o \in {p \in {Agent1, Agent2} :
                  heap[p].history # <<>> /\ heap[p].strategy_name \notin skipped}}

\* C18 as stated: every strategy except Random (Always Cheat included) returns
\* TRUST on an empty history, in every strategy state a tournament leaves.
C18_AllButRandomOpenWithTrust ==
    pc = "round" => OpeningMoves({"Random"}) \subseteq {"TRUST"}

\* C18: every strategy except Random and Always Cheat returns TRUST on an
\* empty history, in every strategy state a tournament leaves, the flags of an
\* earlier match included; Always Cheat returns CHEAT.
C18_AllButRandomAndAlwaysCheatOpenWithTrust ==
    pc = "round" =>
        /\ OpeningMoves({"Random", "Always Cheat"}) \subseteq {"TRUST"}
        /\ OpeningMoves(Strategies \ {"Always Cheat"}) \subseteq {"CHEAT"}

\* a Detective whose switched flag was set in its first match opened its
\* second match, the opponent trusting in round 1, so the flag it holds is
\* the one the first match left
C18_Witness ==
    /\ pc = "round"
    /\ i = 0
    /\ j = 2
    /\ heap[Agent1].strategy_name = "Detective"
    /\ heap[Agent1].strategy.flag
    /\ heap[Agent1].history = << <<"TRUST", "TRUST">> >>

\* the moves of the two sides of a match record, round by round
AgentMoves(rec) == [k \in 1..Len(rec) |-> rec[k].agent_move]
OpponentMoves(rec) == [k \in 1..Len(rec) |-> rec[k].opponent_move]

\* C19: a Tit-for-Tat plays TRUST in round 1 and in every later round the
\* opponent's move of the round before; against Always Cheat over 4 rounds it
\* plays TRUST, CHEAT, CHEAT, CHEAT and ends the match with -1, the Always
\* Cheat with 3, whichever of the two is the first argument.
C19_TitForTatMirrors ==
    /\ pc = "round" =>
           \A o \in {Agent1, Agent2} :
               LET h == heap[o].history
               IN  heap[o].strategy_name = "Tit-for-Tat" =>
                       \A k \in 1..Len(h) :
                           h[k][2] = IF k = 1 THEN "TRUST" ELSE h[k - 1][1]
    /\ (pc = "evolve" /\ Len(matches) = 1 /\ Len(matches[1].rounds) = 4) =>
           LET m    == matches[1]
               tft  == <<"TRUST", "CHEAT", "CHEAT", "CHEAT">>
               a    == heap[agents[m.agent_index + 1]]
               b    == heap[agents[m.opponent_index + 1]]
           IN  /\ (m.agent_strategy = "Tit-for-Tat" /\ m.opponent_strategy = "Always Cheat") =>
                      /\ AgentMoves(m.rounds) = tft
                      /\ SumAgentPayoff(m.rounds) = -1 /\ a.score = -1
                      /\ SumOpponentPayoff(m.rounds) = 3 /\ b.score = 3
               /\ (m.agent_strategy = "Always Cheat" /\ m.opponent_strategy = "Tit-for-Tat") =>
                      /\ OpponentMoves(m.rounds) = tft
                      /\ SumOpponentPayoff(m.rounds) = -1 /\ b.score = -1
                      /\ SumAgentPayoff(m.rounds) = 3 /\ a.score = 3

\* a match of 4 rounds between a Tit-for-Tat and an Always Cheat has ended
C19_Witness ==
    /\ pc = "evolve"
    /\ Len(matches) = 1
    /\ Len(matches[1].rounds) = 4
    /\ matches[1].agent_strategy = "Tit-for-Tat"
    /\ matches[1].opponent_strategy = "Always Cheat"

\* C20: after a match of N rounds between two agents that began at score 0,
\* two Always Trust hold 2N each, two Always Cheat hold 0 each, and of an
\* Always Trust and an Always Cheat the first holds -N and the second 3N,
\* whichever of them was the first argument (10/10, 0/0, -5/15 for N = 5).
C20_ConstantStrategyScores ==
    (pc = "evolve" /\ Len(matches) = 1 /\ score_before = <<0, 0>>) =>
        LET m == matches[1]
            N == Len(m.rounds)
            a == heap[agents[m.agent_index + 1]].score
            b == heap[agents[m.opponent_index + 1]].score
            s == <<m.agent_strategy, m.opponent_strategy>>
        IN  /\ s = <<"Always Trust", "Always Trust">> => (a = 2 * N /\ b = 2 * N)
            /\ s = <<"Always Cheat", "Always Cheat">> => (a = 0 /\ b = 0)
            /\ s = <<"Always Trust", "Always Cheat">> => (a = -N /\ b = 3 * N)
            /\ s = <<"Always Cheat", "Always Trust">> => (a = 3 * N /\ b = -N)
            /\ (N = 5 /\ s = <<"Always Trust", "Always Trust">>) => (a = 10 /\ b = 10)
            /\ (N = 5 /\ s = <<"Always Trust", "Always Cheat">>) => (a = -5 /\ b = 15)

\* a match of 5 rounds with an Always Cheat as first argument and an Always
\* Trust as second has ended
C20_Witness ==
    /\ pc = "evolve"
    /\ Len(matches) = 1
    /\ score_before = <<0, 0>>
    /\ Len(matches[1].rounds) = 5
    /\ matches[1].agent_strategy = "Always Cheat"
    /\ matches[1].opponent_strategy = "Always Trust"

\* a pair with its two components exchanged
Swap(pair) == <<pair[2], pair[1]>>

\* C21: PAYOFF_MATRIX has an entry, a pair of integers, for each of the four
\* ordered pairs of moves, and the entry of (a, b) is the entry of (b, a) with
\* its components exchanged; every round of a match is paid by its entry.
C21_PayoffSymmetricUnderRoleSwap ==
    /\ \A a, b \in Moves :
           /\ PAYOFF_MATRIX(a, b) \in Int \X Int
           /\ PAYOFF_MATRIX(a, b) = Swap(PAYOFF_MATRIX(b, a))
    /\ \A k \in 1..Len(match_history) :
           LET e == match_history[k]
           IN  /\ <<e.agent_payoff, e.opponent_payoff>>
                      = PAYOFF_MATRIX(e.agent_move, e.opponent_move)
               /\ <<e.opponent_payoff, e.agent_payoff>>
                      = PAYOFF_MATRIX(e.opponent_move, e.agent_move)

\* a match in which all four ordered pairs of moves were played and paid
C21_Witness ==
    /\ pc = "round"
    /\ \A a, b \in Moves :
           \E k \in 1..Len(match_history) :
               /\ match_history[k].agent_move = a
               /\ match_history[k].opponent_move = b

\* what the agent at 0-based position x earned in the matches ms: its
\* agent_payoff where it was the first participant, its opponent_payoff where
\* it was the second
RECURSIVE TournamentPayoff(_, _)
TournamentPayoff(ms, x) ==
    IF ms = <<>> THEN 0
    ELSE LET m == ms[Len(ms)]
         IN  TournamentPayoff(SubSeq(ms, 1, Len(ms) - 1), x)
             + (IF m.agent_index = x THEN SumAgentPayoff(m.rounds) ELSE 0)
             + (IF m.opponent_index = x THEN SumOpponentPayoff(m.rounds) ELSE 0)

MatchesOf(ms, x) == {k \in 1..Len(ms) : x \in {ms[k].agent_index, ms[k].opponent_index}}

\* C22: when run_tournament_record returns on a population of K agents that
\* all began at score 0, each agent has taken part in K-1 matches and its
\* score is the sum of its own payoffs over all rounds of those matches: no
\* match resets a score.
C22_ScoresAccumulateOverTournament ==
    pc = "evolve" =>
        \A p \in 1..Len(agents) :
            /\ Cardinality(MatchesOf(matches, p - 1)) = Len(agents) - 1
            /\ heap[agents[p]].score = TournamentPayoff(matches, p - 1)

\* a tournament of three agents in which the first agent earned points in
\* both of its matches
C22_Witness ==
    /\ pc = "evolve"
    /\ Len(agents) = NumAgents
    /\ Len(matches) >= 2
    /\ SumAgentPayoff(matches[1].rounds) > 0
    /\ SumAgentPayoff(matches[2].rounds) > 0
    /\ heap[agents[1]].score > SumAgentPayoff(matches[2].rounds)

\* the four agents as constructed
FreshHeap == [o \in DOMAIN heap |-> NewAgent(heap[o].strategy_name)]

\* the two matches played one after the other, the first for x rounds and then
\* the second for y: the two records and the heap at the end
OneAfterTheOther(first, second, x, y) ==
    CHOOSE r \in
        UNION {{[recs |-> [k \in {first, second} |-> IF k = first THEN r1.rec ELSE r2.rec],
                 heap |-> r2.heap] :
                   r2 \in {PlayMatch(r1.heap, agents[2 * second - 1], agents[2 * second], y)}} :
               r1 \in {PlayMatch(FreshHeap, agents[2 * first - 1], agents[2 * first], x)}} :
        TRUE

\* C23: two matches of disjoint pairs of agents of non-Random strategies share
\* no state: however their rounds are interleaved, the two records and the
\* scores of the four agents are those of playing the matches one after the
\* other, in either order.
C23_InterleavingIsSequential ==
    pc = "interleave" =>
        \A first \in 1..2 :
            \A seq \in {OneAfterTheOther(first, 3 - first,
                                         Len(matches[first].rounds),
                                         Len(matches[3 - first].rounds))} :
                /\ \A k \in 1..2 : matches[k].rounds = seq.recs[k]
                /\ \A p \in 1..Len(agents) :
                       heap[agents[p]].score = seq.heap[agents[p]].score

\* both matches are over, each pairing a Detective with a different constant
\* opponent, so that the two Detectives play differently
C23_Witness ==
    /\ pc = "interleave"
    /\ rounds = PairRounds
    /\ Len(matches[1].rounds) = rounds
    /\ Len(matches[2].rounds) = rounds
    /\ matches[1].agent_strategy = "Detective"
    /\ matches[1].opponent_strategy = "Always Cheat"
    /\ matches[2].agent_strategy = "Detective"
    /\ matches[2].opponent_strategy = "Always Trust"

\* C24: after every round of a match the two participants' histories and the
\* record have as many entries as rounds were played; for every round k the
\* first participant's entry is (opponent_move, agent_move), the second's is
\* (agent_move, opponent_move), and entry k of the record holds the same two
\* moves with the payoffs PAYOFF_MATRIX gives them; the histories hold no
\* round of an earlier match.
C24_HistoriesAndRecordAgree ==
    pc = "round" =>
        LET h1 == heap[Agent1].history
            h2 == heap[Agent2].history
        IN  /\ Len(h1) = Len(match_history)
            /\ Len(h2) = Len(match_history)
            /\ \A k \in 1..Len(match_history) :
                   LET e == match_history[k]
                   IN  /\ h1[k] = <<e.opponent_move, e.agent_move>>
                       /\ h2[k] = <<e.agent_move, e.opponent_move>>
                       /\ <<e.agent_payoff, e.opponent_payoff>>
                              = PAYOFF_MATRIX(e.agent_move, e.opponent_move)

\* the last match of a tournament, both participants having played an earlier
\* match of at least two rounds, after two rounds in which the two played
\* different moves
C24_Witness ==
    /\ pc = "round"
    /\ i = 1
    /\ j = 2
    /\ Len(matches) = 2
    /\ Len(matches[1].rounds) >= 2
    /\ Len(match_history) = 2
    /\ match_history[1].agent_move # match_history[1].opponent_move
    /\ match_history[2].agent_move # match_history[2].opponent_move

\* the strategy names evolve_population returns, as a function of the names
\* and scores of its input in input order and of the two counts alone: the
\* ranks above the eliminated ones, then the ranks of the cloned ones (all of
\* them when the slice agents[-clone_n:] is the whole list)
NamesByStableRank(snap, e, c) ==
    LET K     == Len(snap)
        cut   == IF e > K THEN K ELSE e
        from  == IF c = 0 \/ c >= K THEN 0 ELSE K - c
        named == [r \in 1..K |-> snap[SlotOfRank(snap, r)].strategy_name]
    IN  SubSeq(named, cut + 1, K) \o SubSeq(named, from + 1, K)

\* C25: evolve_population breaks ties of score by input order: the sequence of
\* strategy names it returns is determined by the names and scores of its
\* input in input order, and of two agents of equal score the later one is
\* never eliminated while the earlier one survives.
C25_TiesBrokenByInputOrder ==
    pc = "evolved" =>
        /\ [p \in 1..Len(agents) |-> heap[agents[p]].strategy_name]
               = NamesByStableRank(evolve_in, eliminate_n, clone_n)
        /\ \A p, q \in 1..Len(evolve_in) :
               (p < q /\ evolve_in[p].score = evolve_in[q].score
                      /\ evolve_in[p].ref \in Range(evolve_out))
               => evolve_in[q].ref \in Range(evolve_out)

\* the two lowest-scoring of three agents tied, of different strategies, and
\* one agent was eliminated and one cloned
C25_Witness ==
    /\ pc = "evolved"
    /\ Len(evolve_in) = NumAgents
    /\ eliminate_n = 1
    /\ clone_n = 1
    /\ evolve_in[1].score = evolve_in[2].score
    /\ evolve_in[1].strategy_name # evolve_in[2].strategy_name
    /\ evolve_in[2].score < evolve_in[3].score

\* a response that fails inside the try block: its status or its parsing
FailedResponse(resp) == resp.kind \in {"http_error", "malformed"}

\* C26: call_claude(prompt, max_retries = r) makes at most r + 1 requests;
\* every response but the last one failed its status check or its parsing; it
\* returns the parsed move and reasoning of the first response that parses,
\* and (TRUST, diagnostic) after r + 1 failed responses; every move it returns
\* is TRUST or CHEAT.
C26_CallClaudeBounded ==
    claude_call.status # "none" =>
        LET rs == claude_call.responses
            r  == claude_call.max_retries
            n  == Len(rs)
            o  == claude_call
        IN  /\ n <= r + 1
            /\ \A k \in 1..(n - 1) : FailedResponse(rs[k])
            /\ o.status = "pending" => (n <= r /\ \A k \in 1..n : FailedResponse(rs[k]))
            /\ o.status = "raised" => rs[n].kind = "raise"
            /\ o.status = "returned" =>
                   /\ o.move \in Moves
                   /\ IF rs[n].kind = "ok"
                      THEN /\ o.move = ParsedMove(rs[n].action)
                           /\ o.reasoning = ParsedReason(rs[n].reason)
                      ELSE /\ n = r + 1
                           /\ FailedResponse(rs[n])
                           /\ o.move = Fallback.move
                           /\ o.reasoning = Fallback.reasoning

\* a call with the largest max_retries returned the fallback after as many
\* failed responses as it may request
C26_Witness ==
    /\ claude_call.max_retries = RetryLimit
    /\ Len(claude_call.responses) = RetryLimit + 1
    /\ claude_call.status = "returned"
    /\ claude_call.reasoning = Fallback.reasoning

\* C27: whenever no simulation thread is alive, every run started so far
\* having ended on whichever exit path, the GUI is idle: running is false and
\* the Start and Reset buttons are enabled, so that a new run can be started;
\* and no run is started while running is true.
C27_EveryRunEndsIdle ==
    /\ sim_pc = "none" =>
           (~running /\ start_btn = "normal" /\ reset_btn = "normal")
    /\ sim_pc = "begin" => running

\* no object is named by two slots of the list s
PairwiseDistinct(s) == \A p, q \in 1..Len(s) : p # q => s[p] # s[q]

\* C28: through every tournament and every evolve_population call, starting
\* from pairwise distinct Agent objects, the population consists of pairwise
\* distinct Agent objects: no agent is at two positions, and no reference
\* evolve_population returns beyond the survivors is an agent it was called on.
C28_PopulationObjectsDistinct ==
    /\ PairwiseDistinct(agents)
    /\ pc = "evolved" =>
           LET old == {evolve_in[p].ref : p \in 1..Len(evolve_in)}
               kept == Len(PySliceFrom(evolve_in, eliminate_n))
           IN  /\ PairwiseDistinct(evolve_out)
               /\ \A k \in (kept + 1)..Len(evolve_out) : evolve_out[k] \notin old

\* the highest-scoring of three agents survived, as the object it was, and was
\* cloned, the lowest-scoring being eliminated
C28_Witness ==
    /\ pc = "evolved"
    /\ Len(evolve_in) = NumAgents
    /\ eliminate_n = 1
    /\ clone_n = 1
    /\ Len(agents) = NumAgents
    /\ evolve_out[NumAgents - 1] = evolve_in[SlotOfRank(evolve_in, NumAgents)].ref
    /\ heap[agents[NumAgents]].strategy_name = heap[agents[NumAgents - 1]].strategy_name
    /\ \E p \in 1..NumAgents : evolve_in[p].score > 0

====
